---- MODULE Spec2Model ----
(***************************************************************************)
(* A model of clientx: the request pipeline (client.do, buildRequest,      *)
(* executeRequest), the retry backoff (retry.go) and the adaptive bucket   *)
(* limiter (the limiter part of encoding.go).                              *)
(*                                                                         *)
(* Goroutines are the elements of Procs.  A goroutine is either running a  *)
(* logical call (client.do) or calling the Retrier / Limiter interface     *)
(* directly; pc[p] is its position in the code.                            *)
(***************************************************************************)
EXTENDS Integers, Sequences, FiniteSets, TLC

\* ------------------------------------------------------------- bounds
\* largest maxAttempts a retry policy is configured with
MaxN == 2
\* last instant of the wall clock
MaxTime == 2
\* WithRetry's minWaitTime and maxWaitTime, in clock units
MinWaitTime == 1
MaxWaitTime == 5
\* most exchanges one call is followed through
MaxExch == 5
\* most reconfiguration events queued at once
MaxEvents == 2
\* most AfterResponse hooks a request registers
MaxHooks == 2
\* most times a caller reads the body of one response
MaxReads == 2
\* largest limit and burst WithRateLimit is given
MaxRate == 2
\* width of time.Duration (int64 in the code), in bits
DurationBits == 7

\* the goroutines; when the callers never overlap, Sequential issues every operation
Procs == {"g1", "g2"}
Sequential == "g1"

\* ------------------------------------------------------------- constants
\* retry.go: const stopBackoff time.Duration = -1
stopBackoff == -1
\* rate.Inf, the limit of the unlimited limiter
Inf == -1
\* the zero time.Time
ZeroTime == 0

VARIABLES
    serial,          \* TRUE: the callers never overlap two operations
    retryOn,         \* api.retry != nil
    maxAttempts,     \* backoff.maxAttempts
    conds,           \* options.Retry.Conditions, a sequence of predicate names
    minWaitTime,     \* backoff.minWaitTime
    maxWaitTime,     \* backoff.maxWaitTime
    headers,         \* options.Headers, the global default headers
    baseURL,         \* options.BaseURL
    debug,           \* options.Debug
    load,            \* the name of what the callers and the server offer: the
                     \* request descriptors, the mutator lists, the outcomes
                     \* of an exchange and the responses
    attempts,        \* backoff.attempts
    grants,          \* Next() calls that returned a duration since the last Reset()
    pc,              \* position of each goroutine
    caller,          \* "do": inside client.do; "direct": a direct interface call
    before,          \* backoff.attempts when p's current backoff operation began
    ret,             \* return value of p's last backoff operation
    ctxDone,         \* the context of p's operation has ended
    req,             \* the request descriptor of p's call
    reqBody,         \* httpReq.Body of p's call
    exch,            \* the exchanges of p's call: how many, the last outcome,
                     \* whether all earlier outcomes matched a predicate, and
                     \* the bodies the transport received
    log,             \* what p's call did: request built, predicates evaluated,
                     \* backoff operations invoked, hooks invoked
    result,          \* what client.do handed back to the caller of p's call
    att0,            \* backoff.attempts when p's call started
    httpReq,         \* the request buildRequest made for p's call: its header, the
                     \* mutators of the descriptor and how many of them ran
    httpResp,        \* the final response of p's call: its Content-Encoding, the
                     \* bytes the server sent, resp.Body, the decode stream, and
                     \* what the caller got each time it read resp.Body to the end
    now,             \* the wall clock
    limit,           \* rate.Limiter limit: tokens per clock unit, or Inf
    burst,           \* rate.Limiter burst
    tokens,          \* rate.Limiter tokens
    nextResetAt,     \* adaptiveBucketLimiter.nextResetAt
    nextResetEvents, \* adaptiveBucketLimiter.nextResetEvents
    arg,             \* arguments of p's SetLimitAt / SetBurstAt
    lateAcq,         \* acquires after a pending activation time scheduled "now"
                     \* that left the events queued (-1: nothing such pending)
    granted          \* tokens a limiter of finite rate handed out since the
                     \* clock last advanced

cfgVars ==
    <<serial, retryOn, maxAttempts, conds, minWaitTime, maxWaitTime, headers, baseURL, debug, load>>
backoffVars == <<attempts, grants, before, ret>>
callVars == <<req, reqBody, exch, log, result, att0, httpReq, httpResp>>
limVars == <<limit, burst, tokens, nextResetAt, nextResetEvents, arg, lateAcq, granted>>
vars == <<cfgVars, backoffVars, callVars, limVars, pc, caller, ctxDone, now>>

\* ------------------------------------------------------------- retry.go
RECURSIVE Pow2(_)
Pow2(n) == IF n <= 0 THEN 1 ELSE 2 * Pow2(n - 1)

\* the range of time.Duration
MaxDuration == Pow2(DurationBits - 1) - 1
MinDuration == 0 - Pow2(DurationBits - 1)

\* time.Duration(f) for a float64 f without fraction: f when the type holds it;
\* else the result depends on the implementation (the smallest value on
\* amd64, the nearest bound on arm64)
ToDuration(x) ==
    IF x \in MinDuration .. MaxDuration THEN {x} ELSE {MinDuration, MaxDuration}

\* delay + jitter on int64: the sum wraps around
WrapAdd(a, b) == ((a + b - MinDuration) % Pow2(DurationBits)) + MinDuration

\* rand.Float64() * min * n, truncated to a Duration: every value it can take
JitterSet(n, min) ==
    IF min * n >= 1 THEN UNION { ToDuration(x) : x \in 0 .. (min * n - 1) } ELSE {0}

\* ExponentalBackoff for one jitter draw j and the Duration d that
\* math.Pow(factor, n) * float64(min) was converted to
ExponentalBackoff(n, min, max, j, d) ==
    LET delay == WrapAdd(d, j)
    IN  IF delay > max THEN max ELSE delay

\* every duration ExponentalBackoff(n, min, max) can return
ExponentalBackoffValues(n, min, max) ==
    { ExponentalBackoff(n, min, max, j, d) :
        j \in JitterSet(n, min), d \in ToDuration(Pow2(n) * min) }

\* every duration b.f(n, b.minWaitTime, b.maxWaitTime) can return
BackoffValues(n) == ExponentalBackoffValues(n, minWaitTime, maxWaitTime)

NextStopsOffByOne(a, max) == a > max
NextStopsEarly(a, max) == a + 1 >= max
\* backoff.Next: if atomic.LoadInt64(&b.attempts) >= b.maxAttempts
NextStops(a, max) == a >= max

AllIdle == \A q \in Procs : pc[q] = "idle"
MayBegin(p) == pc[p] = "idle" /\ (serial => p = Sequential)

\* where a backoff operation returns to
AfterNextPc(p) == IF caller[p] = "do" THEN "afterNext" ELSE "idle"
AfterResetPc(p) == IF caller[p] = "do" THEN "execRet" ELSE "idle"

\* a goroutine calls Retrier.Next directly
InvokeNext(p) ==
    /\ MayBegin(p)
    /\ pc' = [pc EXCEPT ![p] = "nextLoad"]
    /\ caller' = [caller EXCEPT ![p] = "direct"]
    /\ before' = [before EXCEPT ![p] = attempts]
    /\ UNCHANGED <<cfgVars, attempts, grants, ret, callVars, limVars, ctxDone, now>>

InvokeReset(p) ==
    /\ MayBegin(p)
    /\ pc' = [pc EXCEPT ![p] = "reset"]
    /\ caller' = [caller EXCEPT ![p] = "direct"]
    /\ before' = [before EXCEPT ![p] = attempts]
    /\ UNCHANGED <<cfgVars, attempts, grants, ret, callVars, limVars, ctxDone, now>>

InvokeAttempt(p) ==
    /\ MayBegin(p)
    /\ pc' = [pc EXCEPT ![p] = "attempt"]
    /\ caller' = [caller EXCEPT ![p] = "direct"]
    /\ before' = [before EXCEPT ![p] = attempts]
    /\ UNCHANGED <<cfgVars, attempts, grants, ret, callVars, limVars, ctxDone, now>>

\* Next, first atomic operation: the load and the comparison
NextLoad(p) ==
    /\ pc[p] = "nextLoad"
    /\ IF NextStops(attempts, maxAttempts)
       THEN /\ ret' = [ret EXCEPT ![p] = stopBackoff]
            /\ pc' = [pc EXCEPT ![p] = AfterNextPc(p)]
       ELSE /\ pc' = [pc EXCEPT ![p] = "nextAdd"]
            /\ UNCHANGED ret
    /\ UNCHANGED <<cfgVars, attempts, grants, before, callVars, limVars, caller, ctxDone, now>>

\* Next, second atomic operation: atomic.AddInt64(&b.attempts, 1)
NextAdd(p) ==
    /\ pc[p] = "nextAdd"
    /\ attempts' = attempts + 1
    /\ pc' = [pc EXCEPT ![p] = "nextF"]
    /\ UNCHANGED <<cfgVars, grants, before, ret, callVars, limVars, caller, ctxDone, now>>

\* Next, third atomic operation: the second load, handed to b.f
NextF(p) ==
    /\ pc[p] = "nextF"
    /\ \E d \in BackoffValues(attempts) : ret' = [ret EXCEPT ![p] = d]
    /\ grants' = grants + 1
    /\ pc' = [pc EXCEPT ![p] = AfterNextPc(p)]
    /\ UNCHANGED <<cfgVars, attempts, before, callVars, limVars, caller, ctxDone, now>>

\* backoff.Reset: atomic.SwapInt64(&b.attempts, 0)
Reset(p) ==
    /\ pc[p] = "reset"
    /\ ret' = [ret EXCEPT ![p] = attempts]
    /\ attempts' = 0
    /\ grants' = 0
    /\ pc' = [pc EXCEPT ![p] = AfterResetPc(p)]
    /\ UNCHANGED <<cfgVars, before, callVars, limVars, caller, ctxDone, now>>

\* backoff.Attempt: atomic.LoadInt64(&b.attempts)
Attempt(p) ==
    /\ pc[p] = "attempt"
    /\ ret' = [ret EXCEPT ![p] = attempts]
    /\ pc' = [pc EXCEPT ![p] = "idle"]
    /\ UNCHANGED <<cfgVars, attempts, grants, before, callVars, limVars, caller, ctxDone, now>>

\* ------------------------------------------------------------- the limiter
Min(a, b) == IF a < b THEN a ELSE b

\* adaptiveBucketLimiter.tryReset: nextResetAt.Equal(now) || nextResetAt.After(now)
TryReset(at, t) == at = t \/ at > t

\* validateResetAt: a zero time becomes time.Now()
ValidateResetAt(at, t) == IF at = ZeroTime THEN t ELSE at

\* one queued event: l.r.SetBurst(v) or l.r.SetLimit(v)
ApplyEvent(e, lb) ==
    IF e.kind = "burst" THEN [lb EXCEPT !.burst = e.val] ELSE [lb EXCEPT !.limit = e.val]

RECURSIVE ApplyEventsNewestFirst(_, _)
ApplyEventsNewestFirst(evs, lb) ==
    IF evs = <<>> THEN lb ELSE ApplyEvent(Head(evs), ApplyEventsNewestFirst(Tail(evs), lb))
\* for i := range l.nextResetEvents { l.nextResetEvents[i]() }
RECURSIVE ApplyEvents(_, _)
ApplyEvents(evs, lb) ==
    IF evs = <<>> THEN lb ELSE ApplyEvents(Tail(evs), ApplyEvent(Head(evs), lb))

\* a goroutine calls Limiter.Wait directly
InvokeWait(p) ==
    /\ MayBegin(p)
    /\ pc' = [pc EXCEPT ![p] = "wait"]
    /\ caller' = [caller EXCEPT ![p] = "direct"]
    /\ ctxDone' = [ctxDone EXCEPT ![p] = FALSE]
    /\ result' = [result EXCEPT ![p].err = "none"]
    /\ UNCHANGED <<cfgVars, backoffVars, req, reqBody, exch, log, att0, httpReq, httpResp, limVars, now>>

HeldPcsThroughTokenWait == {"token"}
\* the positions at which a goroutine rests with l.mu locked. Wait runs from
\* l.mu.Lock() to l.mu.Unlock() in one section and unlocks before
\* return l.r.Wait(ctx); insertEvent's deferred Unlock runs at its return
HeldPcs == {}
\* l.mu.Lock() by p succeeds: no other goroutine has l.mu locked
MuFree(p) == \A q \in Procs \ {p} : pc[q] \notin HeldPcs

\* Wait, the section under l.mu: tryReset and the queued events
WaitReset(p) ==
    /\ pc[p] = "wait"
    /\ MuFree(p)
    /\ IF TryReset(nextResetAt, now)
       THEN LET lb == ApplyEvents(nextResetEvents, [limit |-> limit, burst |-> burst])
            IN  /\ limit' = lb.limit
                /\ burst' = lb.burst
                /\ tokens' = Min(tokens, lb.burst)
                /\ nextResetAt' = ZeroTime
                /\ nextResetEvents' = <<>>
                /\ lateAcq' = -1
       ELSE /\ lateAcq' = IF lateAcq >= 0 /\ now > nextResetAt
                          THEN Min(lateAcq + 1, 2) ELSE lateAcq
            /\ UNCHANGED <<limit, burst, tokens, nextResetAt, nextResetEvents>>
    /\ pc' = [pc EXCEPT ![p] = "token"]
    /\ UNCHANGED <<cfgVars, backoffVars, callVars, arg, granted, caller, ctxDone, now>>

AfterWaitPcIgnoringErr(p, failed) == IF caller[p] = "do" THEN "build" ELSE "idle"
\* client.do: if err := c.api.limiter.Wait(ctx); err != nil { return nil, nil, err }
AfterWaitPc(p, failed) == IF caller[p] = "do" /\ ~failed THEN "build" ELSE "idle"

\* Wait, return l.r.Wait(ctx): a token, or the context's error
WaitToken(p) ==
    /\ pc[p] = "token"
    /\ IF ctxDone[p]
       THEN /\ result' = [result EXCEPT ![p].err = "ctx"]
            /\ pc' = [pc EXCEPT ![p] = AfterWaitPc(p, TRUE)]
            /\ UNCHANGED <<tokens, granted>>
       ELSE /\ limit = Inf \/ tokens >= 1
            /\ tokens' = IF limit = Inf THEN tokens ELSE tokens - 1
            /\ granted' = IF limit = Inf THEN granted ELSE granted + 1
            /\ pc' = [pc EXCEPT ![p] = AfterWaitPc(p, FALSE)]
            /\ UNCHANGED result
    /\ log' = IF caller[p] = "do" /\ ~ctxDone[p] THEN [log EXCEPT ![p].acq = @ + 1] ELSE log
    /\ UNCHANGED <<cfgVars, backoffVars, req, reqBody, exch, att0, httpReq, httpResp, limit, burst,
                   nextResetAt, nextResetEvents, arg, lateAcq, caller, ctxDone, now>>

\* the instants a caller may name: unset, now, or later
NoArg == [kind |-> "burst", val |-> 1, at |-> ZeroTime, asNow |-> TRUE]
ScheduleTimes == {ZeroTime, now, now + 1}
ScheduleValues == {1, 2}

\* a goroutine calls SetBurstAt(at, v) or SetLimitAt(at, v)
InvokeSetAt(p) ==
    /\ MayBegin(p)
    /\ Len(nextResetEvents) < MaxEvents
    /\ \E k \in {"burst", "limit"}, at \in ScheduleTimes, v \in ScheduleValues :
          arg' = [arg EXCEPT ![p] = [kind |-> k, val |-> v, at |-> at, asNow |-> at \in {ZeroTime, now}]]
    /\ pc' = [pc EXCEPT ![p] = "validateAt"]
    /\ caller' = [caller EXCEPT ![p] = "direct"]
    /\ UNCHANGED <<cfgVars, backoffVars, callVars, limit, burst, tokens, nextResetAt,
                   nextResetEvents, lateAcq, granted, ctxDone, now>>

\* the argument validateResetAt(at), evaluated before insertEvent takes l.mu
ValidateAt(p) ==
    /\ pc[p] = "validateAt"
    /\ arg' = [arg EXCEPT ![p].at = ValidateResetAt(arg[p].at, now)]
    /\ pc' = [pc EXCEPT ![p] = "insert"]
    /\ UNCHANGED <<cfgVars, backoffVars, callVars, limit, burst, tokens, nextResetAt,
                   nextResetEvents, lateAcq, granted, caller, ctxDone, now>>

PendingAtEarliest(pending, at) == IF pending # ZeroTime /\ pending < at THEN pending ELSE at
\* insertEvent: l.nextResetAt = at
PendingAt(pending, at) == at

\* insertEvent, under l.mu
InsertEvent(p) ==
    /\ pc[p] = "insert"
    /\ MuFree(p)
    /\ nextResetAt' = PendingAt(nextResetAt, arg[p].at)
    /\ nextResetEvents' = Append(nextResetEvents, [kind |-> arg[p].kind, val |-> arg[p].val])
    /\ lateAcq' = IF arg[p].asNow THEN 0 ELSE -1
    /\ arg' = [arg EXCEPT ![p] = NoArg]
    /\ pc' = [pc EXCEPT ![p] = "idle"]
    /\ UNCHANGED <<cfgVars, backoffVars, callVars, limit, burst, tokens, granted,
                   caller, ctxDone, now>>

RefillWithoutCap(t, l, b) == IF l = Inf THEN t ELSE t + l
\* rate.Limiter: in one clock unit the bucket gains limit tokens, up to burst
Refill(t, l, b) == IF l = Inf THEN t ELSE Min(b, t + l)

\* the wall clock advances; the bucket refills
Tick ==
    /\ now < MaxTime
    /\ now' = now + 1
    /\ tokens' = Refill(tokens, limit, burst)
    /\ granted' = 0
    /\ UNCHANGED <<cfgVars, backoffVars, callVars, limit, burst, nextResetAt,
                   nextResetEvents, arg, lateAcq, pc, caller, ctxDone>>

\* the context of p's operation ends (cancel or deadline)
Cancel(p) ==
    /\ pc[p] # "idle"
    /\ caller[p] = "do" \/ pc[p] \in {"wait", "token"}
    /\ ~ctxDone[p]
    /\ ctxDone' = [ctxDone EXCEPT ![p] = TRUE]
    /\ UNCHANGED <<cfgVars, backoffVars, callVars, limVars, pc, caller, now>>

\* ------------------------------------------------------------- client.go
\* what the transport can answer: a 200, a 429, or a transport error
Outcomes == {"200", "429", "err"}

\* the trigger predicates a policy is configured with
CondMatches(c, o) ==
    CASE c = "always" -> TRUE
      [] c = "is429" -> o = "429"
      [] c = "isErr" -> o = "err"
      [] OTHER -> FALSE

\* WithRetry(..., conditions...): none, one or two predicates
CondLists == {<<>>, <<"always">>, <<"is429">>, <<"is429", "isErr">>}

\* for _, cond := range Conditions { if cond(resp, err) { isMatchedCond = true; break } }
AnyCondMatches(cs, o) == \E i \in 1 .. Len(cs) : CondMatches(cs[i], o)

\* the number of predicates that loop evaluates
CondsEvaluated(cs, o) ==
    IF AnyCondMatches(cs, o)
    THEN CHOOSE i \in 1 .. Len(cs) :
            CondMatches(cs[i], o) /\ \A j \in 1 .. (i - 1) : ~CondMatches(cs[j], o)
    ELSE Len(cs)

\* NewRequestBuilder: method GET, no body, no hooks, no error-decode function;
\* decode is what DoWithDecode hands to client.do, enc the codecs it is called with
NewRequestBuilder ==
    [method |-> "GET", body |-> "none", hooks |-> 0, decode |-> TRUE, errfn |-> FALSE,
     enc |-> <<>>]
\* RequestBuilder.Get: sets the method and leaves rb.body as it is
Get(rb) == [rb EXCEPT !.method = "GET"]
\* RequestBuilder.Post: sets the method and rb.body ("none" is a nil body)
Post(rb, body) == [rb EXCEPT !.method = "POST", !.body = body]
\* RequestBuilder.Head (Head is taken by Sequences): sets the method and leaves rb.body as it is
RbHead(rb) == [rb EXCEPT !.method = "HEAD"]

\* the request descriptors the callers use: the method and body, the number of
\* AfterResponse hooks, Do (decode FALSE) or DoWithDecode, and whether
\* WithErrorDecode registered a function
Requests ==
    { [method |-> "GET", body |-> "none", hooks |-> 0, decode |-> TRUE, errfn |-> FALSE,
       enc |-> <<>>],
      [method |-> "POST", body |-> "v", hooks |-> 1, decode |-> FALSE, errfn |-> FALSE,
       enc |-> <<>>] }
    \cup { [method |-> "GET", body |-> "none", hooks |-> MaxHooks, decode |-> d, errfn |-> TRUE,
            enc |-> <<>>] : d \in BOOLEAN }
    \cup { Get(Post(NewRequestBuilder, "v")), RbHead(Post(NewRequestBuilder, "v")),
           Post(NewRequestBuilder, "none"), Post(NewRequestBuilder, "bad") }

\* the codec lists a caller hands to DoWithDecode(ctx, enc...)
CodecLists == {<<>>, <<"json">>, <<"xml">>, <<"json", "xml">>}
\* RequestBuilder.Do on a descriptor: client.do(ctx, rb, false, JSONEncoderDecoder)
Do(rb) == [rb EXCEPT !.decode = FALSE, !.enc = <<>>]
\* RequestBuilder.DoWithDecode(ctx, enc...) on a descriptor
DoWithDecode(rb, enc) == [rb EXCEPT !.decode = TRUE, !.enc = enc]

TooManyCodecsAccepted(r) == FALSE
\* DoWithDecode: else if len(enc) > 1 { return nil, errors.New(...) }; Do takes no codecs
TooManyCodecs(r) == r.decode /\ Len(r.enc) > 1

\* the codec client.do is called with: JSONEncoderDecoder by Do and by
\* DoWithDecode without codecs, else enc[0]
CodecOf(r) == IF r.decode /\ r.enc # <<>> THEN r.enc[1] ELSE "json"

\* jsonEncoderDecoder.Encode: the value between braces, then a newline
EncodeJSON(v) == <<"{", v, "}", "\n">>
\* xmlEncoderDecoder.Encode: the value as an element, no newline
EncodeXML(v) == <<"<", v, ">">>
\* enc.Encode(payload, rb.body)
Encode(c, v) == IF c = "xml" THEN EncodeXML(v) ELSE EncodeJSON(v)

NilBody == [nil |-> TRUE, data |-> <<>>, off |-> 0]
Reader(bytes) == [nil |-> FALSE, data |-> bytes, off |-> 0]
Remaining(b) == SubSeq(b.data, b.off + 1, Len(b.data))

BuiltBodyWhenPresent(r) ==
    IF r.body # "none" THEN Reader(Encode(CodecOf(r), r.body)) ELSE NilBody
\* buildRequest: the payload when the method is not GET and a body is present
BuiltBody(r) ==
    IF r.method # "GET" /\ r.body # "none" THEN Reader(Encode(CodecOf(r), r.body)) ELSE NilBody

\* a reader the transport has read to the end
DrainedBody(b) == [b EXCEPT !.off = Len(b.data)]
BodyLeftDrained(b) == [b EXCEPT !.off = Len(b.data)]
\* do closure, reuse: b.ReadFrom(req.Body); req.Body = NopCloser(&b);
\* the transport reads a clone's reader over b.Bytes()
RebufferedBody(b) == [nil |-> FALSE, data |-> Remaining(b), off |-> 0]

RetriesWithoutMatch(o) == retryOn
RetryFromAdmission == "wait"
\* executeRequest: time.Sleep(nextDuration); continue: the loop body begins
\* with the do closure
RetryFrom == "exec"

RetriesOnTransportError(o) == (retryOn /\ AnyCondMatches(conds, o)) \/ o = "err"
\* executeRequest: the retry loop runs only with a policy, and goes on only when
\* a predicate matched
Retries(o) == retryOn /\ AnyCondMatches(conds, o)

\* httputil.DumpRequest and httputil.DumpResponse: both succeed, or the one
\* named returns an error
Dumps == {"ok", "request", "response"}

\* do closure: the transport's error as it is; in debug mode the error of a
\* failed dump instead of the response; else the response
DoReturns(o, dump) == IF o # "err" /\ debug /\ dump # "ok" THEN "err" ELSE o

NoExch == [n |-> 0, last |-> "none", wire |-> "none", prevMatched |-> TRUE, sent |-> {}]
NoLog == [built |-> FALSE, acq |-> 0, conds |-> 0, bops |-> 0, hooks |-> <<>>, failed |-> 0,
          errfn |-> 0, caught |-> "no", dropped |-> "none", decodes |-> 0]
NoResult == [resp |-> "none", err |-> "none", norm |-> "none", dec |-> "none", codec |-> "none"]

\* ------------------------------------------------------------- the response body
\* the plaintext a server answers with
Plain == <<"a", "b">>

\* the bytes of a plaintext under a content coding: a header, the payload and
\* a trailer for gzip, a block and its end marker for deflate, a frame for
\* zstd and xz; any other coding leaves the bytes alone
Compress(enc, bytes) ==
    CASE enc = "gzip" -> <<"gz">> \o bytes \o <<"crc">>
      [] enc = "deflate" -> <<"blk">> \o bytes \o <<"eob">>
      [] enc = "zstd" -> <<"zs">> \o bytes
      [] enc = "xz" -> <<"xz">> \o bytes
      [] OTHER -> bytes

\* the values of the Content-Encoding header; "" is an absent header
Encodings == {"", "gzip", "deflate", "zstd", "xz", "br"}

\* http.NoBody, the body of a response without content
HttpNoBody == [kind |-> "NoBody", data |-> <<>>, off |-> 0]
\* the body the transport hands over for a response with content
NetBody(bytes) == [kind |-> "Net", data |-> bytes, off |-> 0]
\* io.NopCloser(&buf): a bytes.Buffer, which a read consumes
BufferBody(bytes) == [kind |-> "Buffer", data |-> bytes, off |-> 0]
\* io.NopCloser(bytes.NewReader(buf.Bytes()))
BytesReader(bytes) == [kind |-> "Reader", data |-> bytes, off |-> 0]
\* the reader after it was read to the end
ReadToEnd(r) == [r EXCEPT !.off = Len(r.data)]

\* the responses a server gives: under every header no body, or the plaintext
\* under the coding the header names; and under a gzip header also an empty
\* body and the plaintext as it is
Responses ==
    { [enc |-> e, body |-> HttpNoBody] : e \in Encodings }
    \cup { [enc |-> e, body |-> NetBody(Compress(e, Plain))] : e \in Encodings }
    \cup { [enc |-> "gzip", body |-> b] : b \in {NetBody(<<>>), NetBody(Plain)} }

\* drainBody: NoBody as it is, else the body read into a buffer once and two
\* readers over the buffered bytes
DrainBody(b) ==
    IF b.kind = "NoBody"
    THEN [r1 |-> HttpNoBody, r2 |-> HttpNoBody]
    ELSE [r1 |-> BufferBody(Remaining(b)), r2 |-> BytesReader(Remaining(b))]

\* gzip.NewReader reads the header: io.EOF on no bytes, gzip.ErrHeader on others
GzipNewReader(r) ==
    LET b == Remaining(r)
    IN  IF b = <<>> THEN [err |-> "EOF", reader |-> [kind |-> "none", src |-> r]]
        ELSE IF Head(b) # "gz"
        THEN [err |-> "gzip: invalid header", reader |-> [kind |-> "none", src |-> r]]
        ELSE [err |-> "none", reader |-> [kind |-> "gzip", src |-> [r EXCEPT !.off = @ + 1]]]

\* flate.NewReader reads nothing until it is read
FlateNewReader(r) == [kind |-> "flate", src |-> r]

\* responseReader: the decode stream, the error, and the new resp.Body
ResponseReader(enc, body) ==
    LET d == DrainBody(body)
    IN  CASE enc = "deflate" ->
               [reader |-> FlateNewReader(d.r2), err |-> "none", body |-> d.r1]
          [] enc = "gzip" ->
               [reader |-> GzipNewReader(d.r2).reader, err |-> GzipNewReader(d.r2).err,
                body |-> d.r1]
          [] OTHER ->
               [reader |-> [kind |-> "raw", src |-> d.r2], err |-> "none", body |-> d.r1]

\* what reading a decode stream to the end yields
StreamReadAll(s) ==
    LET b == Remaining(s.src)
    IN  CASE s.kind = "gzip" ->
               IF b # <<>> /\ b[Len(b)] = "crc"
               THEN [bytes |-> SubSeq(b, 1, Len(b) - 1), err |-> "none"]
               ELSE [bytes |-> <<>>, err |-> "unexpected EOF"]
          [] s.kind = "flate" ->
               IF Len(b) >= 2 /\ b[1] = "blk" /\ b[Len(b)] = "eob"
               THEN [bytes |-> SubSeq(b, 2, Len(b) - 1), err |-> "none"]
               ELSE [bytes |-> <<>>, err |-> "unexpected EOF"]
          [] OTHER -> [bytes |-> b, err |-> "none"]

NoStream == [kind |-> "none", src |-> HttpNoBody]

\* the header keys in use; Absent is the value of a key a header does not carry
HeaderKeys == {"K", "J"}
Absent == "-"
\* an http.Header without entries
NoHeader == [k \in HeaderKeys |-> Absent]
HeaderOf(k, v) == [NoHeader EXCEPT ![k] = v]
HeaderLen(h) == Cardinality({k \in HeaderKeys : h[k] # Absent})

\* options.Headers: no WithHeader option, or WithHeader("K", "g")
HeaderConfigs == {NoHeader, HeaderOf("K", "g")}

\* the request mutators: WithRequestHeaders(h), and
\* WithRequestEncodableParams with a parameter whose Encode fails
WithHeaders(h) == [kind |-> "headers", h |-> h]
FailingOpt == [kind |-> "fail", h |-> NoHeader]

\* the requestOptions of a descriptor, in declaration order
OptLists ==
    { <<>>,
      <<WithHeaders(HeaderOf("K", "m1")), WithHeaders(HeaderOf("K", "m2"))>>,
      <<WithHeaders(HeaderOf("K", "m1")), WithHeaders(HeaderOf("J", "j"))>>,
      <<WithHeaders(HeaderOf("K", "m1")), FailingOpt, WithHeaders(HeaderOf("K", "m2"))>> }

\* WithRequestHeaders: req.Header = headers
WithRequestHeaders(h, reqHeader) == h

\* a RequestOption of the caller's own that calls req.Header.Set(k, v)
SetHeader(k, v) == [kind |-> "set", h |-> HeaderOf(k, v)]
\* http.Header.Set, on the map it is called on
HeaderSet(m, h) == [k \in HeaderKeys |-> IF h[k] # Absent THEN h[k] ELSE m[k]]

\* the mutator lists of a caller who adds headers to the defaults: with
\* WithRequestHeaders alone, and with an option that writes into the header map
InPlaceOptLists ==
    { <<>>,
      <<WithHeaders(HeaderOf("J", "j"))>>,
      <<SetHeader("K", "s")>>,
      <<WithHeaders(HeaderOf("J", "j")), SetHeader("K", "s")>> }

\* for _, opt := range req.requestOptions { if err := opt(httpReq); err != nil { return nil, err } }
\* r.header is httpReq.Header, r.shared tells that it is the map options.Headers
\* refers to, r.global is that map
RECURSIVE ApplyOpts(_, _, _)
ApplyOpts(opts, r, ran) ==
    IF opts = <<>> THEN [header |-> r.header, global |-> r.global, ran |-> ran, err |-> FALSE]
    ELSE IF Head(opts).kind = "fail"
    THEN [header |-> r.header, global |-> r.global, ran |-> ran + 1, err |-> TRUE]
    ELSE IF Head(opts).kind = "set"
    THEN ApplyOpts(Tail(opts),
                   [r EXCEPT !.header = HeaderSet(@, Head(opts).h),
                             !.global = IF r.shared THEN HeaderSet(@, Head(opts).h) ELSE @],
                   ran + 1)
    ELSE ApplyOpts(Tail(opts),
                   [r EXCEPT !.header = WithRequestHeaders(Head(opts).h, @), !.shared = FALSE],
                   ran + 1)

\* buildRequest: a new request's header, then httpReq.Header = options.Headers
\* when it has entries (the same map, not a copy), then the mutators
BuiltRequest(opts) ==
    ApplyOpts(opts,
              [header |-> IF HeaderLen(headers) # 0 THEN headers ELSE NoHeader,
               shared |-> HeaderLen(headers) # 0,
               global |-> headers],
              0)

\* url.Parse(c.api.options.BaseURL) fails on a malformed URL
UrlParses(u) == u # "bad"
\* enc.Encode(payload, rb.body) fails on a value the codec cannot encode
Encodable(v) == v # "bad"

\* buildRequest: the stage that fails (the URL, the payload, a mutator), or "ok"
BuildStage(r, opts) ==
    IF ~UrlParses(baseURL) THEN "url"
    ELSE IF r.method # "GET" /\ r.body # "none" /\ ~Encodable(r.body) THEN "body"
    ELSE IF BuiltRequest(opts).err THEN "opt"
    ELSE "ok"

AfterBuildPcIgnoringErr(failed) == "exec"
\* client.do: httpReq, err := c.buildRequest(...); if err != nil { return nil, nil, err }
AfterBuildPc(failed) == IF failed THEN "idle" ELSE "exec"

\* every descriptor, mutator list and response of the model
FullLoad == [reqs |-> Requests, opts |-> OptLists, outs |-> Outcomes, resps |-> Responses]

\* one descriptor, no mutators, one response
SmallLoad ==
    [reqs |-> {[method |-> "POST", body |-> "v", hooks |-> 1, decode |-> FALSE, errfn |-> FALSE,
                enc |-> <<>>]},
     opts |-> {<<>>},
     outs |-> Outcomes,
     resps |-> {[enc |-> "", body |-> NetBody(Plain)]}]

\* one GET through DoWithDecode, and a server that answers 429 every time
OverloadedLoad ==
    [reqs |-> {NewRequestBuilder},
     opts |-> {<<>>},
     outs |-> {"429"},
     resps |-> {[enc |-> "", body |-> NetBody(Plain)]}]

\* one descriptor and one response, mutators that write the header in place
HeaderLoad == [SmallLoad EXCEPT !.opts = InPlaceOptLists]

\* one POST through Do and through DoWithDecode with each codec list, and a
\* server that answers
CodecLoad ==
    [reqs |-> {DoWithDecode(Post(NewRequestBuilder, "v"), cs) : cs \in CodecLists}
              \cup {Do(Post(NewRequestBuilder, "v"))},
     opts |-> {<<>>},
     outs |-> {"200", "err"},
     resps |-> {[enc |-> "", body |-> NetBody(Plain)]}]

\* the workload a configuration names, and the one the callers of this API offer
Workload(name) ==
    CASE name = "full" -> FullLoad
      [] name = "codecs" -> CodecLoad
      [] name = "small" -> SmallLoad
      [] name = "overloaded" -> OverloadedLoad
      [] name = "headers" -> HeaderLoad

Offered == Workload(load)

NoReq == [built |-> FALSE, stage |-> "none", header |-> NoHeader, opts |-> <<>>, ran |-> 0]

NoResp == [enc |-> "", sent |-> <<>>, nobody |-> TRUE, body |-> HttpNoBody,
           reader |-> NoStream, reads |-> <<>>]

\* RequestBuilder.Do / DoWithDecode: client.do begins
Start(p) ==
    /\ MayBegin(p)
    /\ \E r \in Offered.reqs :
          /\ req' = [req EXCEPT ![p] = r]
          /\ IF TooManyCodecs(r)
             THEN /\ pc' = [pc EXCEPT ![p] = "idle"]
                  /\ result' = [result EXCEPT ![p] = [NoResult EXCEPT !.err = "enc"]]
             ELSE /\ pc' = [pc EXCEPT ![p] = "wait"]
                  /\ result' = [result EXCEPT ![p] = NoResult]
    /\ caller' = [caller EXCEPT ![p] = "do"]
    /\ ctxDone' = [ctxDone EXCEPT ![p] = FALSE]
    /\ reqBody' = [reqBody EXCEPT ![p] = NilBody]
    /\ exch' = [exch EXCEPT ![p] = NoExch]
    /\ log' = [log EXCEPT ![p] = NoLog]
    /\ att0' = [att0 EXCEPT ![p] = attempts]
    /\ httpReq' = [httpReq EXCEPT ![p] = NoReq]
    /\ httpResp' = [httpResp EXCEPT ![p] = NoResp]
    /\ UNCHANGED <<cfgVars, backoffVars, limVars, now>>

\* client.buildRequest, for the mutators the descriptor declares (nothing
\* reads them before), and client.do: if err != nil { return nil, nil, err }
Build(p) ==
    /\ pc[p] = "build"
    /\ \E opts \in Offered.opts :
          LET st == BuildStage(req[p], opts)
              b == BuiltRequest(opts)
              reached == st \in {"opt", "ok"}
          IN  /\ httpReq' = [httpReq EXCEPT ![p] =
                    [built |-> st = "ok", stage |-> st,
                     header |-> IF reached THEN b.header ELSE NoHeader,
                     opts |-> opts, ran |-> IF reached THEN b.ran ELSE 0]]
              /\ pc' = [pc EXCEPT ![p] = AfterBuildPc(st # "ok")]
              /\ IF st # "ok"
                 THEN /\ result' = [result EXCEPT ![p].err = "build"]
                      /\ UNCHANGED <<reqBody, log>>
                 ELSE /\ reqBody' = [reqBody EXCEPT ![p] = BuiltBody(req[p])]
                      /\ log' = [log EXCEPT ![p].built = TRUE]
                      /\ UNCHANGED result
              /\ headers' = IF reached THEN b.global ELSE headers
    /\ UNCHANGED <<serial, retryOn, maxAttempts, conds, minWaitTime, maxWaitTime, baseURL,
                   debug, load, backoffVars,
                   req, exch, att0, httpResp, limVars, caller, ctxDone, now>>

\* one run of the do closure, and in the retry loop the predicates after it
Exec(p) ==
    /\ pc[p] = "exec"
    /\ \E w \in (IF ctxDone[p] THEN {"err"} ELSE Offered.outs),
          dump \in (IF debug THEN Dumps ELSE {"ok"}) :
          LET got == IF reqBody[p].nil THEN <<>> ELSE Remaining(reqBody[p])
              o == DoReturns(w, dump)
          IN  /\ reqBody' = [reqBody EXCEPT ![p] =
                    IF @.nil THEN @
                    ELSE IF retryOn THEN RebufferedBody(@) ELSE DrainedBody(@)]
              /\ exch' = [exch EXCEPT ![p] =
                    [n |-> Min(@.n + 1, MaxExch),
                     last |-> o,
                     wire |-> w,
                     prevMatched |-> @.prevMatched /\ (@.n = 0 \/ AnyCondMatches(conds, @.last)),
                     sent |-> @.sent \cup {got}]]
              /\ IF Retries(o)
                 THEN /\ pc' = [pc EXCEPT ![p] = "nextLoad"]
                      /\ before' = [before EXCEPT ![p] = attempts]
                      /\ log' = [log EXCEPT
                                   ![p].conds = Min(@ + CondsEvaluated(conds, o), 2 * MaxExch),
                                   ![p].bops = Min(@ + 1, 2 * MaxExch)]
                 ELSE /\ pc' = [pc EXCEPT ![p] = "execRet"]
                      /\ log' = [log EXCEPT ![p].conds =
                                      Min(@ + (IF retryOn THEN CondsEvaluated(conds, o) ELSE 0),
                                          2 * MaxExch)]
                      /\ UNCHANGED before
    /\ UNCHANGED <<cfgVars, attempts, grants, ret, req, result, att0, httpReq, httpResp, limVars,
                   caller, ctxDone, now>>

\* nextDuration := c.api.retry.Next(); if nextDuration == stopBackoff { Reset ...
AfterNext(p) ==
    /\ pc[p] = "afterNext"
    /\ IF ret[p] = stopBackoff
       THEN /\ pc' = [pc EXCEPT ![p] = "reset"]
            /\ before' = [before EXCEPT ![p] = attempts]
            /\ log' = [log EXCEPT ![p].bops = Min(@ + 1, 2 * MaxExch)]
       ELSE /\ pc' = [pc EXCEPT ![p] = "sleep"]
            /\ UNCHANGED <<before, log>>
    /\ UNCHANGED <<cfgVars, attempts, grants, ret, req, reqBody, exch, result, att0, httpReq, httpResp,
                   limVars, caller, ctxDone, now>>

\* time.Sleep(nextDuration); continue
Sleep(p) ==
    /\ pc[p] = "sleep"
    /\ ret' = [ret EXCEPT ![p] = 0]
    /\ pc' = [pc EXCEPT ![p] = RetryFrom]
    /\ UNCHANGED <<cfgVars, attempts, grants, before, callVars, limVars, caller, ctxDone, now>>

\* client.do after executeRequest: if err != nil { return nil, nil, err }
ExecRet(p) ==
    /\ pc[p] = "execRet"
    /\ IF exch[p].last = "err"
       THEN /\ result' = [result EXCEPT ![p].err = "transport"]
            /\ pc' = [pc EXCEPT ![p] = "idle"]
       ELSE /\ pc' = [pc EXCEPT ![p] = "normalize"]
            /\ UNCHANGED result
    /\ httpReq' = [httpReq EXCEPT ![p] = NoReq]
    /\ UNCHANGED <<cfgVars, backoffVars, req, reqBody, exch, log, att0, httpResp, limVars,
                   caller, ctxDone, now>>

\* client.do: responseReader(httpResp) on the final response, whose
\* Content-Encoding and body the server chose
Normalize(p) ==
    /\ pc[p] = "normalize"
    /\ \E r \in Offered.resps :
          LET n == ResponseReader(r.enc, r.body)
          IN  /\ httpResp' = [httpResp EXCEPT ![p] =
                    [enc |-> r.enc, sent |-> r.body.data, nobody |-> r.body.kind = "NoBody",
                     body |-> n.body, reader |-> n.reader, reads |-> <<>>]]
              /\ IF n.err # "none"
                 THEN /\ result' = [result EXCEPT ![p].err = "normalize"]
                      /\ pc' = [pc EXCEPT ![p] = "idle"]
                 ELSE /\ result' = [result EXCEPT ![p].norm = exch[p].last]
                      /\ pc' = [pc EXCEPT ![p] = "hooks"]
    /\ UNCHANGED <<cfgVars, backoffVars, req, reqBody, exch, log, att0, httpReq, limVars,
                   caller, ctxDone, now>>

\* the caller of a Do that returned the response reads resp.Body to the end
\* (DoWithDecode hands back the decoded value only)
ReadBody(p) ==
    /\ pc[p] = "idle"
    /\ caller[p] = "do"
    /\ ~req[p].decode
    /\ result[p].resp # "none"
    /\ Len(httpResp[p].reads) < MaxReads
    /\ httpResp' = [httpResp EXCEPT ![p].reads = Append(@, Remaining(httpResp[p].body)),
                                    ![p].body = ReadToEnd(@)]
    /\ UNCHANGED <<cfgVars, backoffVars, req, reqBody, exch, log, result, att0, httpReq, limVars,
                   pc, caller, ctxDone, now>>

HooksRunDespiteError(n, failAt) == [i \in 1 .. n |-> i]
\* for _, after := range c.afterResponse: the hooks invoked, in order, when
\* hook failAt returns an error (0: none does)
HooksInvoked(n, failAt) == [i \in 1 .. (IF failAt = 0 THEN n ELSE failAt) |-> i]

\* client.do: the afterResponse hooks
Hooks(p) ==
    /\ pc[p] = "hooks"
    /\ \E failAt \in 0 .. req[p].hooks :
          /\ log' = [log EXCEPT ![p].hooks = HooksInvoked(req[p].hooks, failAt),
                                ![p].failed = failAt]
          /\ IF failAt = 0
             THEN /\ pc' = [pc EXCEPT ![p] = "errDecode"]
                  /\ UNCHANGED result
             ELSE /\ result' = [result EXCEPT ![p].err = "hook"]
                  /\ pc' = [pc EXCEPT ![p] = "idle"]
    /\ UNCHANGED <<cfgVars, backoffVars, req, reqBody, exch, att0, httpReq, httpResp, limVars,
                   caller, ctxDone, now>>

InterceptsOnErrorOnly(ok, e) == ok /\ e # "none"
InterceptsOnAnyError(ok, e) == ok \/ e # "none"
\* ok, err := req.errDecodeFn(httpResp); if ok { return httpResp, nil, err }
Intercepts(ok, e) == ok

\* client.do: the error-interception function, when one is registered
ErrDecode(p) ==
    /\ pc[p] = "errDecode"
    /\ IF ~req[p].errfn
       THEN /\ pc' = [pc EXCEPT ![p] = "decode"]
            /\ UNCHANGED <<log, result>>
       ELSE \E ok \in BOOLEAN, e \in {"none", "intercept"} :
               /\ log' = [log EXCEPT ![p].errfn = @ + 1,
                                     ![p].caught = IF ok THEN e ELSE "no",
                                     ![p].dropped = IF ok THEN "none" ELSE e]
               /\ IF Intercepts(ok, e)
                  THEN /\ result' = [result EXCEPT ![p].resp = exch[p].last, ![p].err = e]
                       /\ pc' = [pc EXCEPT ![p] = "idle"]
                  ELSE /\ pc' = [pc EXCEPT ![p] = "decode"]
                       /\ UNCHANGED result
    /\ UNCHANGED <<cfgVars, backoffVars, req, reqBody, exch, att0, httpReq, httpResp, limVars,
                   caller, ctxDone, now>>

DecodesAlways(r) == TRUE
\* if decode && enc != nil: Do hands in decode = false, DoWithDecode true
Decodes(r) == r.decode

\* client.do: the typed decode when asked for, and return httpResp, &decoded, nil
Decode(p) ==
    /\ pc[p] = "decode"
    /\ IF Decodes(req[p])
       THEN LET r == StreamReadAll(httpResp[p].reader)
            IN  /\ log' = [log EXCEPT ![p].decodes = @ + 1]
                /\ httpResp' = [httpResp EXCEPT ![p].reader.src = ReadToEnd(@)]
                /\ IF r.err = "none" /\ r.bytes = Plain
                   THEN result' = [result EXCEPT ![p].resp = exch[p].last,
                                                 ![p].dec = exch[p].last,
                                                 ![p].codec = CodecOf(req[p])]
                   ELSE result' = [result EXCEPT ![p].err = "decode",
                                                 ![p].codec = CodecOf(req[p])]
       ELSE /\ result' = [result EXCEPT ![p].resp = exch[p].last]
            /\ UNCHANGED <<log, httpResp>>
    /\ pc' = [pc EXCEPT ![p] = "idle"]
    /\ UNCHANGED <<cfgVars, backoffVars, req, reqBody, exch, att0, httpReq, limVars,
                   caller, ctxDone, now>>

\* ------------------------------------------------------------- api.go
\* NewAPI: no retry option, or WithRetry(n, min, max, f, conds...)
NoRetry ==
    [on |-> FALSE, max |-> 0, conds |-> <<>>, minWait |-> MinWaitTime, maxWait |-> MaxWaitTime]
RetryConfigs ==
    {NoRetry} \cup
    {[on |-> TRUE, max |-> n, conds |-> c, minWait |-> MinWaitTime, maxWait |-> MaxWaitTime] :
        n \in 0 .. MaxN, c \in CondLists}

NewUnlimitedAsOnePerInterval == [limit |-> 1, burst |-> 1]
\* newUnlimitedAdaptiveBucketLimiter: newAdaptiveBucketLimiter(rate.Inf, 1)
NewUnlimited == [limit |-> Inf, burst |-> 1]

\* WithRateLimit(limit, burst, per): limit tokens per clock unit per
RateLimitConfigs == {[limit |-> l, burst |-> b] : l \in 1 .. MaxRate, b \in 1 .. MaxRate}

\* NewAPI: newUnlimitedAdaptiveBucketLimiter(), or WithRateLimit(limit, burst, per)
\* with one token per clock unit
LimiterConfigs == {NewUnlimited, [limit |-> 1, burst |-> 1]}

\* NewAPI's options besides headers, retry and rate limit
DefaultOptions == [baseURL |-> "ok", debug |-> FALSE]
OptionConfigs == {DefaultOptions, [baseURL |-> "bad", debug |-> FALSE]}

InitWith(sq, rc, lc, hc, oc, ld) ==
    /\ serial = sq
    /\ retryOn = rc.on
    /\ maxAttempts = rc.max
    /\ conds = rc.conds
    /\ minWaitTime = rc.minWait
    /\ maxWaitTime = rc.maxWait
    /\ headers = hc
    /\ baseURL = oc.baseURL
    /\ debug = oc.debug
    /\ load = ld
    /\ attempts = 0
    /\ grants = 0
    /\ pc = [p \in Procs |-> "idle"]
    /\ caller = [p \in Procs |-> "direct"]
    /\ before = [p \in Procs |-> 0]
    /\ ret = [p \in Procs |-> 0]
    /\ ctxDone = [p \in Procs |-> FALSE]
    /\ req = [p \in Procs |-> NewRequestBuilder]
    /\ reqBody = [p \in Procs |-> NilBody]
    /\ exch = [p \in Procs |-> NoExch]
    /\ log = [p \in Procs |-> NoLog]
    /\ result = [p \in Procs |-> NoResult]
    /\ att0 = [p \in Procs |-> 0]
    /\ httpReq = [p \in Procs |-> NoReq]
    /\ httpResp = [p \in Procs |-> NoResp]
    /\ now = 1
    /\ limit = lc.limit
    /\ burst = lc.burst
    /\ tokens = lc.burst
    /\ nextResetAt = ZeroTime
    /\ nextResetEvents = <<>>
    /\ arg = [p \in Procs |-> NoArg]
    /\ lateAcq = -1
    /\ granted = 0

\* logical calls through the pipeline
Init ==
    \E rc \in RetryConfigs, lc \in LimiterConfigs, hc \in HeaderConfigs, oc \in OptionConfigs :
        InitWith(TRUE, rc, lc, hc, oc, "full")

Next ==
    \/ Tick
    \/ \E p \in Procs :
          \/ Start(p) \/ Cancel(p) \/ WaitReset(p) \/ WaitToken(p) \/ Build(p)
          \/ Exec(p) \/ NextLoad(p) \/ NextAdd(p) \/ NextF(p) \/ AfterNext(p)
          \/ Reset(p) \/ Sleep(p) \/ ExecRet(p) \/ Normalize(p) \/ Hooks(p)
          \/ ErrDecode(p) \/ Decode(p) \/ ReadBody(p)

Spec == Init /\ [][Next]_vars

\* logical calls on an API built with or without WithDebug
InitDebug ==
    \E rc \in RetryConfigs, lc \in LimiterConfigs, dbg \in BOOLEAN :
        InitWith(TRUE, rc, lc, NoHeader, [baseURL |-> "ok", debug |-> dbg], "small")

SpecDebug == InitDebug /\ [][Next]_vars

\* logical calls through Do, and through DoWithDecode with no codec, one codec and two codecs
InitCodec ==
    \E rc \in RetryConfigs, lc \in LimiterConfigs :
        InitWith(TRUE, rc, lc, NoHeader, DefaultOptions, "codecs")

SpecCodec == InitCodec /\ [][Next]_vars

\* logical calls whose mutators include the caller's own header-setting option
InitHeaders ==
    \E rc \in RetryConfigs, lc \in LimiterConfigs, hc \in HeaderConfigs :
        InitWith(TRUE, rc, lc, hc, DefaultOptions, "headers")

SpecHeaders == InitHeaders /\ [][Next]_vars

\* concurrent logical calls on one API whose retry policy has a trigger that
\* matches every outcome
InitShared ==
    \E n \in 1 .. MaxN :
        InitWith(FALSE,
                 [on |-> TRUE, max |-> n, conds |-> <<"always">>,
                  minWait |-> MinWaitTime, maxWait |-> MaxWaitTime],
                 NewUnlimited, NoHeader, DefaultOptions, "overloaded")

NextShared ==
    \E p \in Procs :
        \/ Start(p) \/ WaitReset(p) \/ WaitToken(p) \/ Build(p)
        \/ Exec(p) \/ NextLoad(p) \/ NextAdd(p) \/ NextF(p) \/ AfterNext(p)
        \/ Reset(p) \/ Sleep(p) \/ ExecRet(p) \/ Normalize(p) \/ Hooks(p)
        \/ ErrDecode(p) \/ Decode(p)

SpecShared == InitShared /\ [][NextShared]_vars

\* the same calls with maxAttempts = 1, every goroutine that is inside a call
\* being scheduled again and again; when a goroutine begins its next call is
\* up to the caller
InitLive ==
    InitWith(FALSE,
             [on |-> TRUE, max |-> 1, conds |-> <<"always">>,
              minWait |-> MinWaitTime, maxWait |-> MaxWaitTime],
             NewUnlimited, NoHeader, DefaultOptions, "overloaded")

\* a step of the call goroutine p is in
Run(p) ==
    \/ WaitReset(p) \/ WaitToken(p) \/ Build(p)
    \/ Exec(p) \/ NextLoad(p) \/ NextAdd(p) \/ NextF(p) \/ AfterNext(p)
    \/ Reset(p) \/ Sleep(p) \/ ExecRet(p) \/ Normalize(p) \/ Hooks(p)
    \/ ErrDecode(p) \/ Decode(p)

SpecLive == InitLive /\ [][NextShared]_vars /\ \A p \in Procs : WF_vars(Run(p))

\* goroutines using one backoff through the Retrier interface
InitBackoff ==
    \E sq \in BOOLEAN, rc \in {c \in RetryConfigs : c.on /\ c.conds = <<"always">>} :
        InitWith(sq, rc, [limit |-> Inf, burst |-> 1], NoHeader, DefaultOptions, "full")

NextBackoff ==
    \E p \in Procs :
        \/ InvokeNext(p) \/ InvokeReset(p) \/ InvokeAttempt(p)
        \/ NextLoad(p) \/ NextAdd(p) \/ NextF(p) \/ Reset(p) \/ Attempt(p)

SpecBackoff == InitBackoff /\ [][NextBackoff]_vars

\* the wait times a policy is configured with: none, short ones, and ones up
\* to the largest Duration
DurationInputs == {0, 1, 2, MaxDuration \div 2, MaxDuration}

\* one caller drawing Next() after Next() from a backoff whose function is
\* ExponentalBackoff, for every 0 <= min <= max of DurationInputs
InitFn ==
    \E mn \in DurationInputs, mx \in DurationInputs :
        /\ mn <= mx
        /\ InitWith(TRUE,
                    [on |-> TRUE, max |-> DurationBits, conds |-> <<"always">>,
                     minWait |-> mn, maxWait |-> mx],
                    NewUnlimited, NoHeader, DefaultOptions, "full")

NextFn == \E p \in Procs : InvokeNext(p) \/ NextLoad(p) \/ NextAdd(p) \/ NextF(p)

SpecFn == InitFn /\ [][NextFn]_vars

\* goroutines using one limiter: Wait, SetBurstAt, SetLimitAt
InitLimiter ==
    \E sq \in BOOLEAN, lc \in LimiterConfigs :
        InitWith(sq, NoRetry, lc, NoHeader, DefaultOptions, "full")

NextLimiter ==
    \/ Tick
    \/ \E p \in Procs :
          \/ InvokeWait(p) \/ InvokeSetAt(p) \/ ValidateAt(p) \/ InsertEvent(p)
          \/ WaitReset(p) \/ WaitToken(p) \/ Cancel(p)

SpecLimiter == InitLimiter /\ [][NextLimiter]_vars

\* two goroutines acquiring and scheduling on one limiter built by WithRateLimit
InitEvents ==
    InitWith(FALSE, NoRetry, [limit |-> 1, burst |-> 1],
             NoHeader, DefaultOptions, "full")

NextEvents ==
    \/ Tick
    \/ \E p \in Procs :
          \/ InvokeWait(p) \/ InvokeSetAt(p) \/ ValidateAt(p) \/ InsertEvent(p)
          \/ WaitReset(p) \/ WaitToken(p)

SpecEvents == InitEvents /\ [][NextEvents]_vars

\* two goroutines acquiring and scheduling on a limiter of one token while the
\* clock stands still, so that the bucket is not refilled and a Wait that
\* finds it empty stays blocked in l.r.Wait; a goroutine that is in a schedule
\* call goes on running
NextBlocked ==
    \E p \in Procs :
        \/ InvokeWait(p) \/ InvokeSetAt(p) \/ ValidateAt(p) \/ InsertEvent(p)
        \/ WaitReset(p) \/ WaitToken(p)

SpecBlocked ==
    /\ InitEvents
    /\ [][NextBlocked]_vars
    /\ \A p \in Procs : WF_vars(ValidateAt(p) \/ InsertEvent(p))

\* goroutines using an API built without WithRateLimit and without WithRetry:
\* logical calls, and acquires on its limiter
InitUnlimited ==
    \E sq \in BOOLEAN :
        InitWith(sq, NoRetry, NewUnlimited,
                 NoHeader, DefaultOptions, "full")

\* direct acquires by every goroutine, and logical calls without a retry
\* policy by one of them
NextCalls ==
    \/ Tick
    \/ Start(Sequential)
    \/ \E p \in Procs :
          \/ InvokeWait(p) \/ WaitReset(p) \/ WaitToken(p) \/ Cancel(p)
          \/ Build(p) \/ Exec(p) \/ ExecRet(p) \/ Normalize(p) \/ Hooks(p) \/ ErrDecode(p)
          \/ Decode(p) \/ ReadBody(p)

SpecUnlimited == InitUnlimited /\ [][NextCalls]_vars

\* goroutines acquiring on the limiter of an API built with
\* WithRateLimit(limit, burst, per), the clock unit being per
InitLimited ==
    \E sq \in BOOLEAN, lc \in RateLimitConfigs :
        InitWith(sq, NoRetry, lc, NoHeader, DefaultOptions, "full")

NextAcquire ==
    \/ Tick
    \/ \E p \in Procs :
          \/ InvokeWait(p) \/ WaitReset(p) \/ WaitToken(p) \/ Cancel(p)

SpecLimited == InitLimited /\ [][NextAcquire]_vars

\* ------------------------------------------------------------- properties
\* every outcome matches some configured trigger predicate
AlwaysMatching == \A o \in Outcomes : AnyCondMatches(conds, o)
\* positions inside the retry loop after an exchange
BackoffPcs == {"nextLoad", "nextAdd", "nextF", "afterNext", "reset", "sleep"}
\* positions of client.do after executeRequest returned
PostExecPcs == {"execRet", "normalize", "hooks", "errDecode", "decode"}
InCall(p) == caller[p] = "do"

\* C1 as stated: with maxAttempts = N >= 1, an always-matching trigger and the
\* counter at 0, a call without concurrent calls performs exactly N exchanges
\* and leaves the counter at 0.
C1_ExactlyNExchanges ==
    \A p \in Procs :
        (InCall(p) /\ retryOn /\ maxAttempts >= 1 /\ AlwaysMatching /\ att0[p] = 0
            /\ pc[p] = "execRet")
        => (exch[p].n = maxAttempts /\ attempts = 0)

\* C1 amended: under the same conditions the call performs exactly N + 1
\* exchanges (the first and N retries), hands back the outcome of the last one,
\* and the counter is 0 when executeRequest returns.
C1_ExactlyNPlusOneExchanges ==
    \A p \in Procs :
        (InCall(p) /\ retryOn /\ maxAttempts >= 1 /\ AlwaysMatching /\ att0[p] = 0)
        => /\ exch[p].n <= maxAttempts + 1
           /\ pc[p] \in PostExecPcs => (exch[p].n = maxAttempts + 1 /\ attempts = 0)
           /\ (pc[p] = "idle" /\ exch[p].n >= 1)
                => /\ exch[p].n = maxAttempts + 1
                   /\ attempts = 0
                   /\ (exch[p].last = "err") <=> (result[p].err = "transport")
                   /\ result[p].resp \in {"none", exch[p].last}

C1_Witness ==
    \E p \in Procs :
        /\ InCall(p) /\ retryOn /\ maxAttempts >= 2 /\ AlwaysMatching /\ att0[p] = 0
        /\ pc[p] = "execRet" /\ exch[p].n = maxAttempts + 1 /\ attempts = 0

\* C2: with the counter at 0 and no concurrent calls, the first outcome that
\* matches no predicate, at exchange k <= maxAttempts, ends the loop: no
\* exchange follows it, the loop does not end earlier on a matching outcome,
\* and that outcome is what normalization and decoding see.
C2_StopsAtFirstNonMatching ==
    \A p \in Procs :
        (InCall(p) /\ retryOn /\ att0[p] = 0 /\ exch[p].n >= 1)
        => /\ exch[p].prevMatched
           /\ ~AnyCondMatches(conds, exch[p].last) => pc[p] \in PostExecPcs \cup {"idle"}
           /\ (pc[p] \in PostExecPcs \cup {"idle"} /\ exch[p].n <= maxAttempts)
                => ~AnyCondMatches(conds, exch[p].last)
           /\ result[p].norm \in {"none", exch[p].last}
           /\ result[p].dec \in {"none", exch[p].last}
           /\ result[p].resp \in {"none", exch[p].last}

C2_Witness ==
    \E p \in Procs :
        /\ InCall(p) /\ retryOn /\ att0[p] = 0 /\ pc[p] = "idle"
        /\ exch[p].n = 2 /\ maxAttempts >= 2 /\ exch[p].last = "200"
        /\ result[p].dec = "200" /\ conds = <<"is429">>

\* C3: without a retry policy a call performs exactly one exchange whatever
\* the outcome; no predicate is evaluated and the backoff is never consulted.
C3_NoRetryOneExchange ==
    \A p \in Procs :
        (InCall(p) /\ ~retryOn)
        => /\ exch[p].n <= 1
           /\ pc[p] \in PostExecPcs => exch[p].n = 1
           /\ pc[p] \notin BackoffPcs
           /\ log[p].conds = 0
           /\ log[p].bops = 0
           /\ attempts = 0

C3_Witness ==
    \E p \in Procs :
        /\ InCall(p) /\ ~retryOn /\ pc[p] = "idle" /\ exch[p].n = 1
        /\ exch[p].last = "err" /\ result[p].err = "transport"

\* C4: under a retry policy every exchange of a call that carries a body hands
\* the transport the bytes of the body as built, on the first exchange and on
\* every retry.
C4_RetriedBodyIdentical ==
    \A p \in Procs :
        (InCall(p) /\ retryOn /\ req[p].method # "GET" /\ req[p].body # "none")
        => exch[p].sent \subseteq {EncodeJSON(req[p].body)}

C4_Witness ==
    \E p \in Procs :
        /\ InCall(p) /\ retryOn /\ req[p].body # "none" /\ exch[p].n >= 3
        /\ exch[p].sent = {EncodeJSON(req[p].body)}

\* C5: when the limiter's Wait fails because the context ended, the call ends
\* there with that error, no response and no decoded value; it builds no
\* request, performs no exchange, invokes no hook and no backoff operation,
\* and the attempt counter is what it was when the call began.
C5_CancelledAdmissionDoesNothing ==
    \A p \in Procs :
        (InCall(p) /\ result[p].err = "ctx")
        => /\ pc[p] = "idle"
           /\ result[p] = [NoResult EXCEPT !.err = "ctx"]
           /\ log[p] = NoLog
           /\ exch[p] = NoExch
           /\ reqBody[p] = NilBody
           /\ attempts = att0[p]

C5_Witness ==
    \E p \in Procs :
        /\ InCall(p) /\ result[p].err = "ctx" /\ pc[p] = "idle"
        /\ limit # Inf /\ tokens = 0 /\ attempts > 0

\* C6 as stated: between non-overlapping calls on an API with a retry policy
\* the shared attempt counter is 0.
C6_CounterZeroBetweenCalls ==
    (retryOn /\ AllIdle) => attempts = 0

\* C7: the sequential contract of the backoff.  Next with attempts >=
\* maxAttempts returns stopBackoff and leaves attempts alone, otherwise it adds
\* exactly 1 and returns f of the new value; Reset sets attempts to 0 and
\* returns the value before; Attempt returns the value and changes nothing.
C7_BackoffContract ==
    [][serial =>
        \A p \in Procs :
            /\ (pc[p] = "nextLoad" /\ pc'[p] = "nextAdd") => before[p] < maxAttempts
            /\ (pc[p] = "nextLoad" /\ pc'[p] \notin {"nextLoad", "nextAdd"})
                 => (before[p] >= maxAttempts /\ ret'[p] = stopBackoff
                     /\ attempts' = before[p])
            /\ (pc[p] = "nextF" /\ pc'[p] # "nextF")
                 => (attempts' = before[p] + 1
                     /\ ret'[p] \in BackoffValues(before[p] + 1))
            /\ (pc[p] = "reset" /\ pc'[p] # "reset")
                 => (attempts' = 0 /\ ret'[p] = before[p])
            /\ (pc[p] = "attempt" /\ pc'[p] # "attempt")
                 => (attempts' = before[p] /\ ret'[p] = before[p])
    ]_vars

C7_Witness ==
    /\ serial
    /\ \E p \in Procs :
          /\ pc[p] = "idle" /\ caller[p] = "direct" /\ ret[p] = stopBackoff
          /\ attempts = maxAttempts /\ maxAttempts >= 2 /\ grants = maxAttempts

\* C8 as stated: under any interleaving of Next() and Reset() the attempt
\* counter never exceeds maxAttempts, and between two resets at most
\* maxAttempts calls of Next() return a duration.
C8_CounterWithinCeiling ==
    attempts <= maxAttempts /\ grants <= maxAttempts

\* C9 as stated: after a change is scheduled for "now" (or with an unset time),
\* an acquire at a later time applies it on that acquire or the next one, so
\* two acquires after the activation time never both leave the events queued.
C9_ScheduledNowAppliedByNextAcquire ==
    lateAcq < 2

\* C10 as stated: an acquire at a time earlier than the pending activation time
\* changes neither the rate nor the burst and leaves the events queued.
C10_NoApplyBeforeActivation ==
    [][\A p \in Procs :
          (pc[p] = "wait" /\ pc'[p] = "token" /\ nextResetAt > now)
          => UNCHANGED <<limit, burst, nextResetEvents, nextResetAt>>
    ]_vars

\* the value the last queued event of a kind sets, or the current value when
\* no queued event is of that kind
LastSet(q, kind, cur) ==
    LET idx == {i \in 1 .. Len(q) : q[i].kind = kind}
    IN  IF idx = {} THEN cur
        ELSE q[CHOOSE i \in idx : \A j \in idx : j <= i].val

\* C11: under any interleaving of Wait, SetBurstAt and SetLimitAt, every step
\* either leaves the queue, the rate and the burst alone, or appends one event
\* and changes neither rate nor burst, or empties a non-empty queue having
\* applied all of its events in enqueue order (each kind ends at the value of
\* its last queued event) and resets the pending activation time.  So an event
\* leaves the queue only by being applied, and is applied only on leaving it.
C11_EventsAppliedOnceInOrder ==
    [][\/ UNCHANGED <<nextResetEvents, limit, burst>>
       \/ /\ \E e \in [kind : {"burst", "limit"}, val : ScheduleValues] :
                nextResetEvents' = Append(nextResetEvents, e)
          /\ UNCHANGED <<limit, burst>>
       \/ /\ nextResetEvents # <<>>
          /\ nextResetEvents' = <<>>
          /\ nextResetAt' = ZeroTime
          /\ limit' = LastSet(nextResetEvents, "limit", limit)
          /\ burst' = LastSet(nextResetEvents, "burst", burst)
    ]_vars

\* two goroutines are in Wait and SetLimitAt at once, and the acquire is about to
\* apply two queued events of one kind that set different values
C11_Witness ==
    \E p, q \in Procs :
        /\ ~serial /\ pc[p] = "wait" /\ pc[q] = "insert"
        /\ TryReset(nextResetAt, now)
        /\ Len(nextResetEvents) = 2
        /\ nextResetEvents[1].kind = nextResetEvents[2].kind
        /\ nextResetEvents[1].val # nextResetEvents[2].val

\* C12: the limiter of an API built without a rate-limit option has an
\* unbounded rate and burst 1, and on it a Wait whose context is live is never
\* held back and never returns an error, for sequential and concurrent callers.
C12_UnlimitedNeverBlocks ==
    /\ limit = Inf
    /\ burst = 1
    /\ \A p \in Procs :
          /\ (pc[p] = "token" /\ ~ctxDone[p]) => ENABLED WaitToken(p)
          /\ result[p].err = "ctx" => ctxDone[p]

\* both goroutines are inside Wait at one instant with live contexts
C12_Witness ==
    /\ ~serial /\ now = 1
    /\ \A p \in Procs : pc[p] = "token" /\ ~ctxDone[p]

Normalized(p) == httpResp[p] # NoResp
\* the server sent the plaintext under the coding its header names
WellFormed(p) == httpResp[p].sent = Compress(httpResp[p].enc, Plain)
\* normalization succeeded and nothing has read the decode stream yet
StreamFresh(p) == Normalized(p) /\ pc[p] = "hooks"

\* C14 as stated: each time the caller reads the body of the returned response
\* to the end it gets exactly the bytes the server sent, the second time as
\* the first.
C14_VisibleBodyReplays ==
    \A p \in Procs :
        \A i \in 1 .. Len(httpResp[p].reads) : httpResp[p].reads[i] = httpResp[p].sent

\* C15 as stated: the decode stream yields the plaintext when Content-Encoding
\* is gzip, deflate, zstd or xz, and the raw bytes for an absent header or any
\* other value.
C15_DecodeStreamFourCodings ==
    \A p \in Procs :
        (StreamFresh(p) /\ WellFormed(p))
        => StreamReadAll(httpResp[p].reader) =
              [bytes |-> IF httpResp[p].enc \in {"gzip", "deflate", "zstd", "xz"}
                         THEN Plain ELSE httpResp[p].sent,
               err |-> "none"]

\* C16 as stated: when the final response has an empty or absent body,
\* normalization builds no gzip or deflate reader whatever the Content-Encoding:
\* it succeeds, and both resp.Body and the decode stream are the no-body value.
C16_EmptyBodySkipsDecompression ==
    \A p \in Procs :
        (Normalized(p) /\ httpResp[p].sent = <<>>)
        => /\ result[p].err # "normalize"
           /\ httpResp[p].reader.kind = "raw"
           /\ httpResp[p].reader.src = HttpNoBody
           /\ httpResp[p].body \in {HttpNoBody, ReadToEnd(HttpNoBody)}

C18_InterceptionShortCircuits ==
    \A p \in Procs :
        (InCall(p) /\ log[p].caught # "no")
        => /\ req[p].errfn
           /\ pc[p] = "idle"
           /\ result[p].err = log[p].caught
           /\ result[p].dec = "none"
           /\ log[p].decodes = 0

C18_Witness ==
    \E p \in Procs :
        /\ InCall(p) /\ req[p].decode /\ log[p].caught = "none"
        /\ pc[p] = "idle" /\ result[p].err = "none" /\ result[p].resp = exch[p].last

\* C19: the codec's decode runs at most once in a call and only in a call that
\* asked for decoding; a Do that returns its response has still been admitted,
\* built, exchanged, normalized, and has run every hook and the
\* error-interception function.
C19_DecodeOnlyWhenRequested ==
    \A p \in Procs :
        InCall(p)
        => /\ log[p].decodes <= 1
           /\ log[p].decodes = 1 => req[p].decode
           /\ (~req[p].decode /\ pc[p] = "idle" /\ result[p].resp # "none")
                => /\ log[p].built
                   /\ exch[p].n >= 1
                   /\ Normalized(p)
                   /\ Len(log[p].hooks) = req[p].hooks
                   /\ log[p].errfn = (IF req[p].errfn THEN 1 ELSE 0)

C19_Witness ==
    \E p \in Procs :
        /\ InCall(p) /\ ~req[p].decode /\ req[p].errfn /\ req[p].hooks >= 2
        /\ pc[p] = "idle" /\ result[p].resp = "200" /\ log[p].caught = "no"
        /\ log[p].decodes = 0 /\ retryOn /\ exch[p].n >= 2

\* the header maps applied to p's request, in the order of application: the
\* global defaults, then the header of each declared mutator
Setters(p) ==
    <<headers>> \o [i \in 1 .. Len(httpReq[p].opts) |-> httpReq[p].opts[i].h]
SettersOf(p, k) == {i \in 1 .. Len(Setters(p)) : Setters(p)[i][k] # Absent}
LastOf(S) == CHOOSE i \in S : \A j \in S : j <= i
FailingAt(opts) == {i \in 1 .. Len(opts) : opts[i].kind = "fail"}

\* C20: when a request is built the global default headers are applied first
\* and the mutators then run in declaration order, so every header key that
\* several of them set carries, on the outgoing request, the value of the
\* last one that set it; a failing mutator stops the build (no request, no
\* exchange, the call returns the error) and the mutators after it do not run.
C20_LastSetterWins ==
    \A p \in Procs :
        LET h == httpReq[p]
            F == FailingAt(h.opts)
        IN  /\ (h.stage = "ok" /\ pc[p] = "exec") =>
                  /\ F = {} /\ h.ran = Len(h.opts)
                  /\ \A k \in HeaderKeys :
                        Cardinality(SettersOf(p, k)) >= 2 =>
                            h.header[k] = Setters(p)[LastOf(SettersOf(p, k))][k]
            /\ h.stage = "opt" =>
                  /\ F # {} /\ h.ran = (CHOOSE i \in F : \A j \in F : i <= j)
                  /\ pc[p] = "idle" /\ result[p].err = "build" /\ exch[p] = NoExch

C22_RetryIffTriggerAndNotStop ==
    /\ [](\A p \in Procs :
            (InCall(p) /\ retryOn /\ exch[p].n >= 1)
            => /\ pc[p] \in BackoffPcs => AnyCondMatches(conds, exch[p].last)
               /\ exch[p].prevMatched
               /\ (pc[p] \in PostExecPcs \cup {"idle"} /\ ~AnyCondMatches(conds, exch[p].last))
                    => log[p].bops = exch[p].n - 1
               /\ (pc[p] \in PostExecPcs \cup {"idle"} /\ AnyCondMatches(conds, exch[p].last))
                    => log[p].bops = exch[p].n + 1
               /\ conds = <<>> => (exch[p].n = 1 /\ log[p].bops = 0 /\ log[p].conds = 0))
    /\ [][\A p \in Procs :
            (InCall(p) /\ exch[p].n >= 1 /\ exch'[p].n = exch[p].n + 1)
            => /\ retryOn /\ AnyCondMatches(conds, exch[p].last)
               /\ ret[p] # stopBackoff]_vars
    /\ [][\A p \in Procs :
            (InCall(p) /\ pc[p] = "afterNext" /\ ret[p] # stopBackoff /\ pc'[p] # pc[p])
            => pc'[p] = "sleep"]_vars

C22_Witness ==
    \E p \in Procs :
        /\ InCall(p) /\ retryOn /\ conds = <<"is429">> /\ maxAttempts >= 1
        /\ pc[p] = "idle" /\ exch[p].n = 1 /\ exch[p].last = "err"
        /\ result[p].err = "transport" /\ log[p].bops = 0 /\ attempts = 0

\* C24: when the context of a call ends while the call sleeps between two
\* attempts, the sleep is interrupted: the next step of the call ends it with
\* the cancellation outcome, and the call starts no further exchange.
C24_SleepInterruptedByCancel ==
    [][\A p \in Procs :
          (InCall(p) /\ pc[p] = "sleep" /\ ctxDone[p] /\ pc'[p] # pc[p])
          => /\ pc'[p] = "idle"
             /\ result'[p].err = "ctx"
             /\ exch'[p] = exch[p]]_vars

\* C28: when building the request fails (the base URL does not parse, the
\* body does not encode, or a mutator returns an error) the call ends with
\* that error, no response and no decoded value; it performs no exchange,
\* invokes no hook, and neither consults nor changes the backoff counter.
C28_BuildFailureDoesNothing ==
    \A p \in Procs :
        (InCall(p) /\ httpReq[p].stage \in {"url", "body", "opt"})
        => /\ pc[p] = "idle"
           /\ result[p] = [NoResult EXCEPT !.err = "build"]
           /\ exch[p] = NoExch
           /\ ~log[p].built /\ log[p].hooks = <<>> /\ log[p].bops = 0
           /\ log[p].conds = 0 /\ log[p].decodes = 0
           /\ attempts = att0[p]
           /\ httpResp[p] = NoResp

C28_Witness ==
    \E p \in Procs :
        /\ InCall(p) /\ httpReq[p].stage = "opt" /\ httpReq[p].ran = 2
        /\ pc[p] = "idle" /\ result[p].err = "build" /\ retryOn /\ attempts > 0

\* C29: a call acquires from the limiter once, before its request is built
\* and before its first exchange, and not again: a call that made r retries
\* made r + 1 exchanges on that one acquire.
C29_OneTokenPerCall ==
    \A p \in Procs :
        InCall(p)
        => /\ log[p].acq <= 1
           /\ (httpReq[p] # NoReq \/ log[p].built \/ exch[p].n >= 1) => log[p].acq = 1
           /\ pc[p] \in {"wait", "token"} => (log[p].acq = 0 /\ exch[p].n = 0 /\ ~log[p].built)

C29_Witness ==
    \E p \in Procs :
        /\ InCall(p) /\ pc[p] = "idle" /\ exch[p].n = 3 /\ log[p].acq = 1
        /\ limit # Inf /\ result[p].err = "none"

\* C25: debug mode does not change control flow. Without the flag the do
\* closure hands the retry loop and client.do what the transport answered, and
\* everything a call does after an exchange follows from that; so with the
\* flag on every run of the closure hands on what the transport answered as
\* well, also when dumping the request or the response fails.
C25_DebugKeepsControlFlow ==
    \A p \in Procs :
        (InCall(p) /\ exch[p].n >= 1) => exch[p].last = exch[p].wire

\* C26: the configuration of the API is read-only once NewAPI has returned: no
\* step of a call (build, mutators, exchanges, retries) changes the base URL,
\* the default headers, the debug flag, the retry options or the rate and
\* burst the limiter was built with; a header a request sets for itself never
\* shows in the default headers the next request starts from.
C26_ConfigurationReadOnly ==
    [][UNCHANGED <<baseURL, headers, debug, retryOn, maxAttempts, conds, limit, burst>>]_vars

\* C27: for 0 <= min <= max the default backoff function never returns more
\* than max, and it is non-decreasing in the attempt number whatever the
\* jitter: as long as the value returned for attempt n was below max (not
\* clamped), the value returned for attempt n + 1 is not smaller.
C27_BackoffMonotoneUpToMax ==
    [][\A p \in Procs :
          (pc[p] = "nextF" /\ pc'[p] # pc[p])
          => /\ ret'[p] <= maxWaitTime
             /\ (attempts >= 2 /\ ret[p] < maxWaitTime) => ret[p] <= ret'[p]]_vars

\* C30: when two or more calls with an always-matching trigger run
\* concurrently on one API with maxAttempts = N, no call performs more than
\* N + 1 exchanges, whatever the interleaving of their Next() and Reset()
\* operations on the shared counter.
C30_NoCallExceedsNPlusOne ==
    \A p \in Procs : (InCall(p) /\ AlwaysMatching) => exch[p].n <= maxAttempts + 1

\* C23: every logical call terminates: whatever the transport answers and the
\* predicates say, a call that has begun ends, also while other calls share
\* the backoff counter and reset it.
C23_EveryCallTerminates ==
    \A p \in Procs : (InCall(p) /\ pc[p] # "idle") ~> (pc[p] = "idle")

\* C31: a global default header whose key no mutator of the request sets is on
\* the outgoing request with its configured value, also when the request adds
\* other headers with WithRequestHeaders.
C31_DefaultHeaderKept ==
    \A p \in Procs :
        LET h == httpReq[p]
        IN  (h.stage = "ok" /\ pc[p] = "exec")
            => \A k \in HeaderKeys :
                  (headers[k] # Absent /\ \A i \in 1 .. Len(h.opts) : h.opts[i].h[k] = Absent)
                  => h.header[k] = headers[k]

\* C32: when the error-interception function returns false the call goes on
\* to the typed decode, and the error it returned with false is dropped: the
\* call does not end on it and never returns it.
C32_FalseVerdictErrorDiscarded ==
    \A p \in Procs :
        (InCall(p) /\ log[p].errfn = 1 /\ log[p].caught = "no")
        => /\ pc[p] \in {"decode", "idle"}
           /\ result[p].err \in {"none", "decode"}
           /\ pc[p] = "idle"
                => /\ log[p].decodes = (IF req[p].decode THEN 1 ELSE 0)
                   /\ result[p].err = "none" => result[p].resp = exch[p].last

C32_Witness ==
    \E p \in Procs :
        /\ InCall(p) /\ req[p].decode /\ log[p].errfn = 1
        /\ log[p].caught = "no" /\ log[p].dropped = "intercept"
        /\ pc[p] = "idle" /\ result[p].err = "none" /\ result[p].dec = "200"

\* C33: the limiter has one pending activation time for the whole queue: a
\* schedule call appends its event and makes its own time the pending one,
\* whether that is earlier or later than the time pending before; no other
\* step changes the pending time or the queue, except an acquire that finds
\* the pending time due, which applies every queued event and leaves the
\* queue empty. So two events queued one after the other wait for the time
\* of the second, and one acquire applies both.
C33_SinglePendingActivation ==
    [][\/ UNCHANGED <<nextResetAt, nextResetEvents>>
       \/ \E p \in Procs :
             /\ pc[p] = "insert" /\ pc'[p] = "idle"
             /\ nextResetAt' = arg[p].at
             /\ nextResetEvents' =
                    Append(nextResetEvents, [kind |-> arg[p].kind, val |-> arg[p].val])
       \/ /\ TryReset(nextResetAt, now)
          /\ nextResetEvents' = <<>>
          /\ nextResetAt' = ZeroTime
          /\ limit' = LastSet(nextResetEvents, "limit", limit)
          /\ burst' = LastSet(nextResetEvents, "burst", burst)
    ]_vars

\* one event is queued for a later time, and a second schedule call is about
\* to queue its event for an earlier one while the other goroutine is in Wait
C33_Witness ==
    \E p, q \in Procs :
        /\ pc[p] = "insert" /\ pc[q] = "wait"
        /\ Len(nextResetEvents) = 1
        /\ arg[p].at < nextResetAt
        /\ TryReset(arg[p].at, now)

\* p is inside l.r.Wait and no token is there for it
BlockedForToken(p) == pc[p] = "token" /\ ~ENABLED WaitToken(p)

\* C34: l.mu is locked only while the queue is inspected, applied or appended
\* to, and is unlocked before the caller waits for a token: while a caller is
\* blocked waiting for a token, another goroutine that is about to append its
\* event or to enter the locked section of Wait can take its step, and every
\* schedule call that has begun completes.
C34_BlockedWaiterHoldsNoLock ==
    /\ [](\A p \in Procs : \A q \in Procs \ {p} :
             BlockedForToken(p)
             => /\ pc[q] = "insert" => ENABLED InsertEvent(q)
                /\ pc[q] = "wait" => ENABLED WaitReset(q))
    /\ \A q \in Procs : (pc[q] \in {"validateAt", "insert"}) ~> (pc[q] = "idle")

\* one goroutine is blocked in l.r.Wait on the empty bucket and the other has
\* queued an event and returned from its schedule call
C34_Witness ==
    \E p \in Procs : \E q \in Procs \ {p} :
        /\ BlockedForToken(p)
        /\ pc[q] = "idle" /\ caller[q] = "direct"
        /\ nextResetEvents # <<>>

\* the codec DoWithDecode is to use by its documentation: JSON without a codec
\* argument, the argument when there is one
NamedCodec(cs) == IF cs = <<>> THEN "json" ELSE cs[1]

\* C35: DoWithDecode with more than one codec returns an error at once: no
\* token is acquired, no request is built, nothing is exchanged. With no codec
\* it encodes the body and decodes the response with the JSON codec, with one
\* codec it does both with that codec.
C35_CodecArity ==
    \A p \in Procs :
        (InCall(p) /\ req[p].decode)
        => IF Len(req[p].enc) > 1
           THEN /\ pc[p] = "idle"
                /\ result[p] = [NoResult EXCEPT !.err = "enc"]
                /\ log[p] = NoLog /\ exch[p] = NoExch /\ httpReq[p] = NoReq
                /\ reqBody[p] = NilBody
           ELSE LET c == NamedCodec(req[p].enc)
                    sent == IF c = "json" THEN <<"{", req[p].body, "}", "\n">>
                                          ELSE <<"<", req[p].body, ">">>
                IN  /\ result[p].err # "enc"
                    /\ (log[p].built /\ req[p].method # "GET" /\ req[p].body # "none")
                         => /\ exch[p].sent \subseteq {sent}
                            /\ exch[p].n >= 1 => exch[p].sent = {sent}
                    /\ result[p].codec = (IF log[p].decodes = 1 THEN c ELSE "none")

\* a call with two codecs has returned its error on a limiter that has a token
C35_Witness ==
    \E p \in Procs :
        /\ InCall(p) /\ req[p].decode /\ Len(req[p].enc) = 2
        /\ pc[p] = "idle" /\ result[p].err = "enc"
        /\ limit # Inf /\ tokens >= 1

====
